---- MODULE Spec2Model ----
(***************************************************************************)
(* Seq2seqPredictor.forward of open_couplet/predictor.py: the constrained  *)
(* beam search over a batch of couplet first lines.  Tensors are modelled  *)
(* as functions: the batch axis is 0..BatchSize-1, the beam axis 0..k-1,   *)
(* positions 0..FixLen-1, and a boolean mask over the vocabulary is the    *)
(* set of the token ids it marks.  Scores are integers (log-probabilities  *)
(* on a fixed-point scale) with NegInf standing for float('-inf').         *)
(***************************************************************************)
EXTENDS Integers, Sequences, FiniteSets, TLC

VARIABLES pc, source, seq_len, beam_size, dec,
          pad_mask, sent_pattern, known_token, multi,
          i, scores, output, input_var, ban_token_mask, state,
          k_indices, symbol, calls,
          twin, no_tie

vars == <<pc, source, seq_len, beam_size, dec,
          pad_mask, sent_pattern, known_token, multi,
          i, scores, output, input_var, ban_token_mask, state,
          k_indices, symbol, calls, twin, no_tie>>

(* ---------------- bounds of the model ---------------- *)
BatchSize == 2
FixLen == 3
MaxBeam == 2
VocabSize == 6
LPLevels == 3

(* ---------------- program constants ---------------- *)
pad_token_id == 0
bos_token_id == 1
eos_token_id == 2
NegInf == -1000

None == << >>

Pos == 0 .. (FixLen - 1)
Vocab == 0 .. (VocabSize - 1)
Special == {bos_token_id, eos_token_id, pad_token_id}
Beam(k) == 0 .. (k - 1)

Max(S) == CHOOSE x \in S : \A y \in S : y <= x
Min(S) == CHOOSE x \in S : \A y \in S : x <= y

\* float addition with -inf absorbing
Add(a, b) == IF a = NegInf \/ b = NegInf THEN NegInf ELSE a + b

(* ---------------- inputs ---------------- *)
\* A source row of true length L: non-pad token ids at positions below L, the
\* pad token from L on.  Rows are enumerated up to renaming of the characters
\* (each new character is the smallest id not used before it), so that every
\* equality pattern of a row occurs once.
IsSourceRow(row, L) ==
    /\ \A p \in Pos : p >= L => row[p] = pad_token_id
    /\ \A p \in Pos : p < L =>
          /\ row[p] \notin Special
          /\ row[p] <= 1 + Max({eos_token_id} \cup {row[q] : q \in {r \in Pos : r < p}})

SourceRows == {row \in [Pos -> Vocab] : \E L \in 1 .. FixLen : IsSourceRow(row, L)}

TrueLen(row) == Cardinality({p \in Pos : row[p] # pad_token_id})

(* ---------------- external collaborators ---------------- *)
\* utils.sentence_pattern: positions carrying the same source character are
\* correlated; padding positions are correlated with nothing.
sentence_pattern(src, pm) ==
    [b \in DOMAIN src |-> [p \in Pos |-> [q \in Pos |->
        /\ src[b][p] = src[b][q]
        /\ (pm = None \/ (~pm[b][p] /\ ~pm[b][q]))]]]

\* model.encode: the context of a batch element is a function of its own row.
encode(src, len) == [b \in DOMAIN src |-> src[b]]

RECURSIVE Mix(_)
Mix(h) == IF h = << >> THEN 0 ELSE Len(h) * h[Len(h)] + Mix(SubSeq(h, 1, Len(h) - 1))

MixRow(row) == Mix([n \in 1 .. FixLen |-> row[n - 1]])

\* model.decode: a deterministic step decoder.  The decoder state of a slot is
\* the sequence of input tokens it has consumed; the log-probability of a token
\* is a function of the decoder d, the context and that state.  The decoders
\* d = 0 .. LPLevels-1 differ in how the log-probability varies with the token
\* (d = 0: all tokens of a row tie); the last one underflows to -inf.
LogProb(d, ctx, h, tok) ==
    LET x == (d * tok + Mix(h) + MixRow(ctx)) % LPLevels
    IN  IF d = LPLevels - 1 /\ x = LPLevels - 1 THEN NegInf ELSE 0 - (x + 1)

decode(d, ctx, st, inp) ==
    LET st1 == [b \in DOMAIN st |-> [j \in DOMAIN st[b] |-> Append(st[b][j], inp[b][j])]]
    IN  [state |-> st1,
         log_prob |-> [b \in DOMAIN st |-> [j \in DOMAIN st[b] |-> [t \in Vocab |->
                          LogProb(d, ctx[b], st1[b][j], t)]]]]

(* ---------------- helpers of the predictor ---------------- *)
\* forward, lines 33-34
PadMask(src, len) ==
    IF Min({len[b] : b \in DOMAIN len}) # FixLen
    THEN [b \in DOMAIN src |-> [p \in Pos |-> src[b][p] = pad_token_id]]
    ELSE None

gen_token_mask(batch, k, tokens) == [b \in batch |-> [j \in Beam(k) |-> tokens]]

\* _known_token without line 158: the final valid position is not marked
_known_token_NoEnd(pattern, length) ==
    [b \in DOMAIN pattern |-> [p \in Pos |->
        \E q \in Pos : q < p /\ pattern[b][p][q]]]

_known_token(pattern, length) ==
    [b \in DOMAIN pattern |-> [p \in Pos |->
        \/ \E q \in Pos : q < p /\ pattern[b][p][q]
        \/ (b \in DOMAIN length /\ p = length[b] - 1)]]

\* forward, line 63
Multi(pattern) ==
    [b \in DOMAIN pattern |-> [p \in Pos |->
        Cardinality({q \in Pos : pattern[b][p][q]}) > 1]]

\* _token_mask without the torch.where on known: every slot is forced
_token_mask_AllKnown(ban, known, tokens) ==
    [b \in DOMAIN ban |-> [j \in DOMAIN ban[b] |-> Vocab \ {tokens[b][j]}]]

_token_mask(ban, known, tokens) ==
    [b \in DOMAIN ban |-> [j \in DOMAIN ban[b] |->
        IF known[b][j] THEN Vocab \ {tokens[b][j]} ELSE ban[b][j]]]

\* _update_output with the pattern row of the first batch element used for all
_update_output_SharedRow(out, indices, sym) ==
    [b \in DOMAIN out |-> [j \in DOMAIN out[b] |-> [p \in Pos |->
        IF indices[Min(DOMAIN out)][p] THEN sym[b][j] ELSE out[b][j][p]]]]

_update_output(out, indices, sym) ==
    [b \in DOMAIN out |-> [j \in DOMAIN out[b] |-> [p \in Pos |->
        IF indices[b][p] THEN sym[b][j] ELSE out[b][j][p]]]]

\* topk(k, sorted=False): the n largest entries in any order
RECURSIVE TopK_Unsorted(_, _)
TopK_Unsorted(P, n) ==
    IF n = 0 THEN {<< >>}
    ELSE LET best == {c \in P : \A d \in P : d[2] <= c[2]}
         IN  UNION {{SubSeq(s, 1, m) \o <<c[1]>> \o SubSeq(s, m + 1, Len(s)) :
                        s \in TopK_Unsorted(P \ {c}, n - 1), m \in 0 .. (n - 1)} : c \in best}

\* a top-k that drops the candidates of score -inf: fewer than n results when
\* fewer than n candidates are finite
RECURSIVE TopK_FiniteOnly(_, _)
TopK_FiniteOnly(P, n) ==
    IF n = 0 THEN {<< >>}
    ELSE LET best == {c \in P : c[2] # NegInf /\ \A d \in P : d[2] <= c[2]}
         IN  UNION {{<<c[1]>> \o s : s \in TopK_FiniteOnly(P \ {c}, n - 1)} : c \in best}

\* torch.topk(k, dim=1) on one row of the flattened (beam, vocabulary) scores,
\* given as the set P of the pairs <<flat index, score>>: the indices of the n
\* largest entries in descending order of score.  The order among equal scores
\* is not fixed by the routine, so every order is a possible result.
RECURSIVE TopK(_, _)
TopK(P, n) ==
    IF n = 0 THEN {<< >>}
    ELSE LET best == {c \in P : \A d \in P : d[2] <= c[2]}
         IN  UNION {{<<c[1]>> \o s : s \in TopK(P \ {c}, n - 1)} : c \in best}

\* all ways to pick one element of F[b] for every b of S
RECURSIVE Choices(_, _)
Choices(F, S) ==
    IF S = {} THEN {<< >>}
    ELSE LET b == Max(S)
         IN  {(b :> x) @@ g : x \in F[b], g \in Choices(F, S \ {b})}

(* ---------------- forward: set-up (lines 26-75) ---------------- *)
\* line 27: the condition of the assert
ValidBeam_NonNegative(k) == k >= 0

ValidBeam(k) == k > 0

\* lines 38-39 with every slot filled with 0.0
InitScores_AllZero(batch, k) == [b \in batch |-> [j \in Beam(k) |-> 0]]

\* lines 38-39: -inf everywhere, then 0.0 at the first slot of every element
InitScores(batch, k) == [b \in batch |-> [j \in Beam(k) |-> IF j = 0 THEN 0 ELSE NegInf]]

\* line 43: the positions of row b that output[arange(batch_size), :, seq_len - 1]
\* addresses.  The two index tensors are broadcast against each other: a length
\* vector of one entry addresses the same position in every row, and a batch of
\* one row is addressed once per entry of the length vector.
EosPositions(len, batch, b) ==
    IF Cardinality(batch) = 1 THEN {len[x] - 1 : x \in DOMAIN len}
    ELSE IF Cardinality(DOMAIN len) = 1 THEN {len[x] - 1 : x \in DOMAIN len}
    ELSE {len[b] - 1}

\* lines 43 and 158 raise no indexing error: the index tensors of line 43 can be
\* broadcast, and the row indices range(length.size(0)) of line 158 are rows of
\* the pattern
ShapeOK(src, len) ==
    LET n == Cardinality(DOMAIN src)
        m == Cardinality(DOMAIN len)
    IN  (m = n \/ m = 1 \/ n = 1) /\ m <= n

Setup(src, len, k) ==
    LET batch == DOMAIN src
        pm == PadMask(src, len)
        pat == sentence_pattern(src, pm)
    IN  [pad_mask |-> pm,
         sent_pattern |-> pat,
         known_token |-> _known_token(pat, len),
         multi |-> Multi(pat),
         scores |-> InitScores(batch, k),
         output |-> [b \in batch |-> [j \in Beam(k) |-> [p \in Pos |->
                        IF p \in EosPositions(len, batch, b) THEN eos_token_id
                        ELSE pad_token_id]]],
         input_var |-> [b \in batch |-> [j \in Beam(k) |-> bos_token_id]],
         ban_token_mask |-> gen_token_mask(batch, k, Special),
         state |-> [b \in batch |-> [j \in Beam(k) |-> << >>]]]

(* ---------------- forward: one loop iteration (lines 77-136) ---------------- *)
\* line 78: the decoder call on the current input tokens and states
Decoded(c) == decode(c.dec, encode(c.source, c.seq_len), c.state, c.input_var)

\* lines 83-84: the slots of b are past its true length at position c.i
EndIndices(c, b) == c.pad_mask # None /\ c.pad_mask[b][c.i]

\* lines 92-95 taking the branch of line 93 always
TokenMask_BanOnly(c) == c.ban_token_mask

\* lines 92-95
TokenMask(c) ==
    IF \A b \in DOMAIN c.source : ~c.known_token[b][c.i]
    THEN c.ban_token_mask
    ELSE _token_mask(c.ban_token_mask,
                     [b \in DOMAIN c.source |-> [j \in Beam(c.beam_size) |->
                         c.known_token[b][c.i]]],
                     [b \in DOMAIN c.source |-> [j \in Beam(c.beam_size) |->
                         c.output[b][j][c.i]]])

\* lines 89-96 without the masked_fill_ of line 96
MaskedScores_Unmasked(c) ==
    LET d == Decoded(c)
    IN  [b \in DOMAIN c.source |-> [n \in 0 .. (c.beam_size * VocabSize - 1) |->
            Add(c.scores[b][n \div VocabSize], d.log_prob[b][n \div VocabSize][n % VocabSize])]]

\* lines 89-96: the masked candidate scores, per batch element a function of the
\* flat candidate index beam * vocab_size + token (the view of line 101)
MaskedScores(c) ==
    LET d == Decoded(c)
        token_mask == TokenMask(c)
    IN  [b \in DOMAIN c.source |-> [n \in 0 .. (c.beam_size * VocabSize - 1) |->
            LET j == n \div VocabSize
                t == n % VocabSize
            IN  IF t \in token_mask[b][j] THEN NegInf
                ELSE Add(c.scores[b][j], d.log_prob[b][j][t])]]

\* lines 101-105 without the override of lines 104-105
NewScores_NoFreeze(c, cand) ==
    [b \in DOMAIN c.source |-> [j \in Beam(c.beam_size) |->
        MaskedScores(c)[b][cand[b][j + 1]]]]

\* lines 101-105: the scores after the top-k result cand (per batch element the
\* sequence of the k selected flat indices) and the frozen-slot override
NewScores(c, cand) ==
    LET sc == MaskedScores(c)
    IN  [b \in DOMAIN c.source |-> [j \in Beam(c.beam_size) |->
            IF EndIndices(c, b) THEN c.scores[b][j] ELSE sc[b][cand[b][j + 1]]]]

\* lines 110-112 without the override of lines 111-112
KIndices_NoOverride(c, cand) ==
    [b \in DOMAIN c.source |-> [j \in Beam(c.beam_size) |-> cand[b][j + 1] \div VocabSize]]

\* lines 110-112
KIndices(c, cand) ==
    [b \in DOMAIN c.source |-> [j \in Beam(c.beam_size) |->
        IF EndIndices(c, b) THEN j ELSE cand[b][j + 1] \div VocabSize]]

\* lines 127-129
Symbol(c, cand) ==
    [b \in DOMAIN c.source |-> [j \in Beam(c.beam_size) |->
        IF EndIndices(c, b) THEN pad_token_id ELSE cand[b][j + 1] % VocabSize]]

\* lines 117-122 without the re-ranking: every slot keeps its own entry
Gather_Identity(x, kidx) == x

\* lines 117-122: x[batch_indices, k_indices]
Gather(x, kidx) == [b \in DOMAIN kidx |-> [j \in DOMAIN kidx[b] |-> x[b][kidx[b][j]]]]

\* lines 132-135 taking the branch of line 135 always
WriteToken_NoBroadcast(c, out, sym) ==
    [b \in DOMAIN out |-> [j \in DOMAIN out[b] |-> [out[b][j] EXCEPT ![c.i] = sym[b][j]]]]

\* lines 132-135
WriteToken(c, out, sym) ==
    IF \E b \in DOMAIN c.source : c.multi[b][c.i]
    THEN _update_output(out, [b \in DOMAIN c.source |-> c.sent_pattern[b][c.i]], sym)
    ELSE [b \in DOMAIN out |-> [j \in DOMAIN out[b] |-> [out[b][j] EXCEPT ![c.i] = sym[b][j]]]]

\* line 136 left out
MarkUsed_Forgotten(ban, sym) == ban

\* line 136 marking the token of every slot of the element in each of its masks
MarkUsed_AllSlots(ban, sym) ==
    [b \in DOMAIN ban |-> [j \in DOMAIN ban[b] |->
        ban[b][j] \cup {sym[b][x] : x \in DOMAIN ban[b]}]]

\* line 136
MarkUsed(ban, sym) ==
    [b \in DOMAIN ban |-> [j \in DOMAIN ban[b] |-> ban[b][j] \cup {sym[b][j]}]]

\* lines 98-136 for the top-k result cand
Rerank(c, cand) ==
    LET kidx == KIndices(c, cand)
        sym == Symbol(c, cand)
    IN  [i |-> c.i + 1,
         scores |-> NewScores(c, cand),
         output |-> WriteToken(c, Gather(c.output, kidx), sym),
         input_var |-> sym,
         ban_token_mask |-> MarkUsed(Gather(c.ban_token_mask, kidx), sym),
         state |-> Gather(Decoded(c).state, kidx),
         k_indices |-> kidx,
         symbol |-> sym]

\* line 101: the possible top-k results, one sequence of flat indices per element
TopKResults(c) ==
    LET sc == MaskedScores(c)
    IN  Choices([b \in DOMAIN c.source |->
                    TopK({<<n, sc[b][n]>> : n \in 0 .. (c.beam_size * VocabSize - 1)},
                         c.beam_size)],
                DOMAIN c.source)

\* every result the iteration can have
StepResults(c) == {Rerank(c, cand) : cand \in TopKResults(c)}

\* line 77, range(fix_len) exhausted; left early once every element is frozen
LoopDone_EarlyExit(c) ==
    \/ c.i = FixLen
    \/ \A b \in DOMAIN c.source : c.pad_mask # None /\ c.pad_mask[b][c.i]

\* line 77: range(fix_len) is exhausted
LoopDone(c) == c.i = FixLen

\* the run as a record
Cur ==
    [source |-> source, seq_len |-> seq_len, beam_size |-> beam_size, dec |-> dec,
     pad_mask |-> pad_mask, sent_pattern |-> sent_pattern,
     known_token |-> known_token, multi |-> multi,
     i |-> i, scores |-> scores, output |-> output, input_var |-> input_var,
     ban_token_mask |-> ban_token_mask, state |-> state,
     k_indices |-> k_indices, symbol |-> symbol]

(* ---------------- the state machine ---------------- *)
\* A call of forward(source, seq_len, beam_size) with the decoder dec.  Batches of
\* one row are enumerated with every decoder, larger batches with the decoders
\* whose log-probabilities are all finite.
RunInit ==
    /\ pc = "call"
    /\ \E n \in 1 .. BatchSize :
          /\ source \in [0 .. (n - 1) -> SourceRows]
          /\ dec \in 0 .. (IF n = 1 THEN LPLevels - 1 ELSE LPLevels - 2)
    /\ seq_len = [b \in DOMAIN source |-> TrueLen(source[b])]
    /\ beam_size \in 0 .. MaxBeam
    /\ pad_mask = None /\ sent_pattern = None /\ known_token = None /\ multi = None
    /\ i = 0
    /\ scores = None /\ output = None /\ input_var = None
    /\ ban_token_mask = None /\ state = None
    /\ k_indices = None /\ symbol = None
    /\ calls = << >>

\* line 27: assert beam_size > 0
RunReject ==
    /\ pc = "call"
    /\ ~ValidBeam(beam_size)
    /\ pc' = "error"
    /\ UNCHANGED <<source, seq_len, beam_size, dec, pad_mask, sent_pattern, known_token,
                   multi, i, scores, output, input_var, ban_token_mask, state,
                   k_indices, symbol, calls>>

\* lines 28-75
RunBegin ==
    /\ pc = "call"
    /\ ValidBeam(beam_size)
    /\ ShapeOK(source, seq_len)
    /\ LET s == Setup(source, seq_len, beam_size)
       IN  /\ pad_mask' = s.pad_mask
           /\ sent_pattern' = s.sent_pattern
           /\ known_token' = s.known_token
           /\ multi' = s.multi
           /\ scores' = s.scores
           /\ output' = s.output
           /\ input_var' = s.input_var
           /\ ban_token_mask' = s.ban_token_mask
           /\ state' = s.state
    /\ calls' = <<"sentence_pattern", "encode">>
    /\ pc' = "loop"
    /\ UNCHANGED <<source, seq_len, beam_size, dec, i, k_indices, symbol>>

\* lines 77-136, one iteration
RunStep ==
    /\ pc = "loop"
    /\ ~LoopDone(Cur)
    /\ \E r \in StepResults(Cur) :
          /\ i' = r.i
          /\ scores' = r.scores
          /\ output' = r.output
          /\ input_var' = r.input_var
          /\ ban_token_mask' = r.ban_token_mask
          /\ state' = r.state
          /\ k_indices' = r.k_indices
          /\ symbol' = r.symbol
    /\ calls' = Append(calls, "decode")
    /\ UNCHANGED <<pc, source, seq_len, beam_size, dec, pad_mask, sent_pattern,
                   known_token, multi>>

\* line 138
RunReturn ==
    /\ pc = "loop"
    /\ LoopDone(Cur)
    /\ pc' = "done"
    /\ UNCHANGED <<source, seq_len, beam_size, dec, pad_mask, sent_pattern, known_token,
                   multi, i, scores, output, input_var, ban_token_mask, state,
                   k_indices, symbol, calls>>

\* one call of forward
Init == RunInit /\ twin = None /\ no_tie = TRUE
Reject == RunReject /\ UNCHANGED <<twin, no_tie>>
Begin == RunBegin /\ UNCHANGED <<twin, no_tie>>
Step == RunStep /\ UNCHANGED <<twin, no_tie>>
Return == RunReturn /\ UNCHANGED <<twin, no_tie>>

Next == Reject \/ Begin \/ Step \/ Return

Spec == Init /\ [][Next]_vars

(* ---------------- calls with a length vector of the wrong size ---------------- *)
\* A call whose seq_len has not one entry per row of source, with the decoders
\* whose log-probabilities are finite and differ from token to token.
ShapeInit ==
    /\ pc = "call"
    /\ \E n \in 1 .. BatchSize : \E m \in 1 .. (BatchSize + 1) :
          /\ m # n
          /\ source \in [0 .. (n - 1) -> SourceRows]
          /\ seq_len \in [0 .. (m - 1) -> 1 .. FixLen]
    /\ dec \in 1 .. (LPLevels - 2)
    /\ beam_size \in 0 .. MaxBeam
    /\ pad_mask = None /\ sent_pattern = None /\ known_token = None /\ multi = None
    /\ i = 0
    /\ scores = None /\ output = None /\ input_var = None
    /\ ban_token_mask = None /\ state = None
    /\ k_indices = None /\ symbol = None
    /\ calls = << >>
    /\ twin = None /\ no_tie = TRUE

\* the indexing of line 43 or of line 158 raises: the call ends in that error.
\* Line 158 is reached through line 60, after the Pattern Analyzer has run.
RunRaise ==
    /\ pc = "call"
    /\ ValidBeam(beam_size)
    /\ ~ShapeOK(source, seq_len)
    /\ pc' = "error"
    /\ calls' = IF Cardinality(DOMAIN source) = 1 THEN <<"sentence_pattern">> ELSE << >>
    /\ UNCHANGED <<source, seq_len, beam_size, dec, pad_mask, sent_pattern, known_token,
                   multi, i, scores, output, input_var, ban_token_mask, state,
                   k_indices, symbol>>

Raise == RunRaise /\ UNCHANGED <<twin, no_tie>>

ShapeNext == Reject \/ Raise \/ Begin \/ Step \/ Return

SpecShape == ShapeInit /\ [][ShapeNext]_vars

(* ---------------- two calls on the same arguments ---------------- *)
\* A second call of forward on the same source, lengths, beam width and decoder,
\* run in step with the first; twin holds its loop state.  no_tie records that
\* no top-k selection of either call has met equal scores so far.
TwinCur ==
    [source |-> source, seq_len |-> seq_len, beam_size |-> beam_size, dec |-> dec,
     pad_mask |-> pad_mask, sent_pattern |-> sent_pattern,
     known_token |-> known_token, multi |-> multi,
     i |-> twin.i, scores |-> twin.scores, output |-> twin.output,
     input_var |-> twin.input_var, ban_token_mask |-> twin.ban_token_mask,
     state |-> twin.state, k_indices |-> twin.k_indices, symbol |-> twin.symbol]

\* In the top-k selection of every batch element that is not frozen, a score
\* that ranks among the k largest is the score of one candidate only.
NoTie(c) ==
    LET sc == MaskedScores(c)
        cands == 0 .. (c.beam_size * VocabSize - 1)
    IN  \A b \in DOMAIN c.source : ~EndIndices(c, b) =>
            LET P == {<<n, sc[b][n]>> : n \in cands}
            IN  \A x \in P :
                    Cardinality({y \in P : y[2] > x[2]}) < c.beam_size
                    => \A y \in P : y[2] = x[2] => y = x

\* the calls are enumerated on the batches of one row, with the decoders whose
\* log-probabilities are all finite
TwinInit ==
    /\ RunInit /\ twin = None /\ no_tie = TRUE
    /\ Cardinality(DOMAIN source) = 1
    /\ dec < LPLevels - 1

TwinReject == RunReject /\ UNCHANGED <<twin, no_tie>>

TwinBegin ==
    /\ RunBegin
    /\ LET s == Setup(source, seq_len, beam_size)
       IN  twin' = [i |-> 0, scores |-> s.scores, output |-> s.output,
                    input_var |-> s.input_var, ban_token_mask |-> s.ban_token_mask,
                    state |-> s.state, k_indices |-> None, symbol |-> None]
    /\ UNCHANGED no_tie

TwinStep ==
    /\ RunStep
    /\ \E r \in StepResults(TwinCur) : twin' = r
    /\ no_tie' = (no_tie /\ NoTie(Cur) /\ NoTie(TwinCur))

TwinReturn == RunReturn /\ UNCHANGED <<twin, no_tie>>

TwinNext == TwinReject \/ TwinBegin \/ TwinStep \/ TwinReturn

SpecTwin == TwinInit /\ [][TwinNext]_vars

(* ---------------- properties ---------------- *)
Returned == pc = "done"
Slots == Beam(beam_size)
Finite(x) == x # NegInf

\* C1: in every returned hypothesis, two positions that the pattern matrix
\* declares correlated hold the same token.
C1_CorrelatedEqual ==
    Returned => \A b \in DOMAIN source : \A j \in Slots : \A p \in Pos : \A q \in Pos :
                    sent_pattern[b][p][q] => output[b][j][p] = output[b][j][q]

\* a returned beam of more than one hypothesis whose row correlates two
\* different positions, filled with a vocabulary token
C1_Witness ==
    /\ Returned /\ beam_size > 1
    /\ \E b \in DOMAIN source : \E p \in Pos : \E q \in Pos :
          /\ p # q /\ sent_pattern[b][p][q]
          /\ \A j \in Slots : Finite(scores[b][j]) /\ output[b][j][p] \notin Special

\* C2: in every returned hypothesis the token at position seq_len - 1 is the
\* end token.
C2_EndToken ==
    Returned => \A b \in DOMAIN source : \A j \in Slots :
                    output[b][j][seq_len[b] - 1] = eos_token_id

\* C3 as claimed: no returned hypothesis holds a non-special token at two
\* different positions below its true length.
C3_NoRepeat ==
    Returned => \A b \in DOMAIN source : \A j \in Slots : \A p \in Pos : \A q \in Pos :
                    (p # q /\ p < seq_len[b] /\ q < seq_len[b]
                       /\ output[b][j][p] = output[b][j][q])
                    => output[b][j][p] \in Special

\* C3 amended: a returned hypothesis with a finite score holds a non-special
\* token at two different positions below its true length only where the
\* pattern matrix correlates the two positions.
C3_NoRepeatUncorrelated ==
    Returned => \A b \in DOMAIN source : \A j \in Slots : \A p \in Pos : \A q \in Pos :
                    (Finite(scores[b][j]) /\ p # q /\ p < seq_len[b] /\ q < seq_len[b]
                       /\ output[b][j][p] = output[b][j][q] /\ output[b][j][p] \notin Special)
                    => sent_pattern[b][p][q]

\* a returned finite hypothesis with vocabulary tokens at two uncorrelated
\* positions, chosen while a second hypothesis competed
C3_Witness ==
    /\ Returned /\ beam_size > 1
    /\ \E b \in DOMAIN source : \E j \in Slots : \E p \in Pos : \E q \in Pos :
          /\ Finite(scores[b][j]) /\ p # q /\ ~sent_pattern[b][p][q]
          /\ output[b][j][p] \notin Special /\ output[b][j][q] \notin Special

\* C4: the returned scores of a batch element are non-increasing in slot order.
C4_ScoresDescending ==
    Returned => \A b \in DOMAIN source : \A j \in Slots :
                    (j + 1) \in Slots => scores[b][j] >= scores[b][j + 1]

\* a returned element that was frozen before the last iteration, with two
\* different finite scores
C4_Witness ==
    /\ Returned
    /\ \E b \in DOMAIN source :
          /\ seq_len[b] < FixLen
          /\ \E j \in Slots : (j + 1) \in Slots /\ Finite(scores[b][j + 1])
                                /\ scores[b][j] > scores[b][j + 1]

\* one iteration of the loop, as an action
IsStep == pc = "loop" /\ i' = i + 1

\* the log-probability the decoder gives token t for slot j of b in this iteration
LP(b, j, t) == Decoded(Cur).log_prob[b][j][t]

\* C5 as claimed: with beam width 1, at every position that is not frozen the
\* emitted token is a not-banned token of maximal log-probability, and the
\* score grows by that log-probability.
C5_Greedy ==
    [][(IsStep /\ beam_size = 1) =>
          \A b \in DOMAIN source : ~EndIndices(Cur, b) =>
              LET t == symbol'[b][0]
                  banned == TokenMask(Cur)[b][0]
              IN  /\ t \notin banned
                  /\ \A u \in Vocab \ banned : LP(b, 0, u) <= LP(b, 0, t)
                  /\ scores'[b][0] = Add(scores[b][0], LP(b, 0, t))]_vars

\* C5 amended: with beam width 1, at every position that is not frozen, where
\* the score of the hypothesis is finite and some token that is not banned has a
\* finite log-probability, the emitted token is a not-banned token of maximal
\* log-probability and the score grows by that log-probability.
C5_GreedyFinite ==
    [][(IsStep /\ beam_size = 1) =>
          \A b \in DOMAIN source :
              (/\ ~EndIndices(Cur, b)
               /\ Finite(scores[b][0])
               /\ \E u \in Vocab \ TokenMask(Cur)[b][0] : Finite(LP(b, 0, u)))
              => LET t == symbol'[b][0]
                     banned == TokenMask(Cur)[b][0]
                 IN  /\ t \notin banned
                     /\ \A u \in Vocab \ banned : LP(b, 0, u) <= LP(b, 0, t)
                     /\ scores'[b][0] = LP(b, 0, t) + scores[b][0]]_vars

\* beam width 1, two free positions decoded, a vocabulary token just emitted
\* and a finite score
C5_Witness ==
    /\ pc = "loop" /\ beam_size = 1 /\ i >= 2
    /\ \E b \in DOMAIN source :
          /\ i < seq_len[b]
          /\ Finite(scores[b][0])
          /\ symbol[b][0] \notin Special

\* no two different positions of b are correlated
IdentityPattern(b) == \A p \in Pos : \A q \in Pos : p # q => ~sent_pattern[b][p][q]

\* The reference: plain no-repeat beam search over the rows of length seq_len.
\* A continuation <<parent, token>> is allowed when the token is the end token
\* at the last position, and otherwise when it is not special and not among the
\* tokens the parent has emitted.
RefAllowed(b, j) ==
    IF i = seq_len[b] - 1 THEN {eos_token_id}
    ELSE Vocab \ (Special \cup {output[b][j][p] : p \in {q \in Pos : q < i}})

RefScore(b, cont) == Add(scores[b][cont[1]], LP(b, cont[1], cont[2]))

RefPairs(b) ==
    {<<cont, RefScore(b, cont)>> :
        cont \in {x \in Slots \X Vocab : x[2] \in RefAllowed(b, x[1])}}

\* slot j after the iteration is the continuation cont of the reference
RefMatch(b, j, cont) ==
    /\ scores'[b][j] = RefScore(b, cont)
    /\ \A p \in Pos : p < seq_len[b] =>
          output'[b][j][p] = IF p = i THEN cont[2] ELSE output[b][cont[1]][p]

\* the reference has finished the row: nothing of it changes
RefStopped(b) ==
    \A j \in Slots : /\ scores'[b][j] = scores[b][j]
                     /\ \A p \in Pos : p < seq_len[b] => output'[b][j][p] = output[b][j][p]

\* C6 as claimed: for a batch element with the identity pattern, every
\* iteration takes the K hypotheses and scores to those the reference beam
\* search selects from them, so that the K returned sequences and scores are
\* the reference's.
C6_Reference ==
    [][IsStep =>
          \A b \in DOMAIN source : IdentityPattern(b) =>
              IF i < seq_len[b]
              THEN \E sel \in TopK(RefPairs(b), beam_size) :
                      \A j \in Slots : RefMatch(b, j, sel[j + 1])
              ELSE RefStopped(b)]_vars

\* C6 amended: for a batch element with the identity pattern, every iteration
\* takes the K scores to those of the reference, and the hypothesis of every
\* slot with a finite score to the reference's: the slots are filled in
\* descending order with the reference's best continuations of finite score,
\* and the slots left over have score -inf (their tokens are not constrained).
C6_ReferenceFinite ==
    [][IsStep =>
          \A b \in DOMAIN source : IdentityPattern(b) =>
              IF i < seq_len[b]
              THEN LET fin == {x \in RefPairs(b) : Finite(x[2])}
                       m == IF Cardinality(fin) < beam_size THEN Cardinality(fin)
                            ELSE beam_size
                   IN  \E sel \in TopK(fin, m) :
                          \A j \in Slots :
                              IF j < m THEN RefMatch(b, j, sel[j + 1])
                              ELSE scores'[b][j] = NegInf
              ELSE RefStopped(b)]_vars

\* a row of three different characters, beam width 2: after the second
\* position both hypotheses are finite and descend from the second-ranked parent
C6_Witness ==
    /\ pc = "loop" /\ i = 2 /\ beam_size = 2
    /\ \E b \in DOMAIN source :
          /\ IdentityPattern(b) /\ seq_len[b] = 3
          /\ \A j \in Slots : Finite(scores[b][j]) /\ k_indices[b][j] = 1

\* C7: an iteration at a position at or past the true length of b leaves the
\* slots of b frozen: same score, same hypothesis in the same slot, the pad
\* token emitted, the tokens below the true length unchanged.
C7_Frozen ==
    [][IsStep =>
          \A b \in DOMAIN source : i >= seq_len[b] =>
              \A j \in Slots :
                  /\ scores'[b][j] = scores[b][j]
                  /\ k_indices'[b][j] = j
                  /\ symbol'[b][j] = pad_token_id
                  /\ input_var'[b][j] = pad_token_id
                  /\ \A p \in Pos : p < seq_len[b] => output'[b][j][p] = output[b][j][p]]_vars

\* a batch element past its true length, one frozen iteration done, whose two hypotheses
\* have finite scores
C7_Witness ==
    /\ pc = "loop" /\ beam_size = 2
    /\ \E b \in DOMAIN source :
          /\ i > seq_len[b]
          /\ \A j \in Slots : Finite(scores[b][j]) /\ symbol[b][j] = pad_token_id

\* C8: a token written at a known position of a hypothesis (the initial end
\* token, or a token broadcast from a correlated position) is not replaced by
\* a different token in the hypotheses descended from it.
C8_KnownKept ==
    [][IsStep =>
          \A b \in DOMAIN source : \A j \in Slots : \A p \in Pos :
              (known_token[b][p] /\ output[b][k_indices'[b][j]][p] # pad_token_id)
              => output'[b][j][p] = output[b][k_indices'[b][j]][p]]_vars

SoloCur(b) ==
    LET src == [x \in {b} |-> source[x]]
        len == [x \in {b} |-> seq_len[x]]
        s == Setup(src, len, beam_size)
    IN  [source |-> src, seq_len |-> len, beam_size |-> beam_size, dec |-> dec,
         pad_mask |-> s.pad_mask, sent_pattern |-> s.sent_pattern,
         known_token |-> s.known_token, multi |-> s.multi,
         i |-> i,
         scores |-> [x \in {b} |-> scores[x]],
         output |-> [x \in {b} |-> output[x]],
         input_var |-> [x \in {b} |-> input_var[x]],
         ban_token_mask |-> [x \in {b} |-> ban_token_mask[x]],
         state |-> [x \in {b} |-> state[x]],
         k_indices |-> None, symbol |-> None]

\* C10: batch elements do not interfere.  Whatever the other rows of the batch
\* are, an iteration takes the hypotheses, scores and per-slot state of b to a
\* result of the same iteration of the call on the row of b alone; so what
\* forward returns for b is what it can return for b alone.
C10_NoInterference ==
    [][IsStep =>
          \A b \in DOMAIN source :
              \E r \in StepResults(SoloCur(b)) :
                  /\ r.scores[b] = scores'[b]
                  /\ r.output[b] = output'[b]
                  /\ r.input_var[b] = input_var'[b]
                  /\ r.ban_token_mask[b] = ban_token_mask'[b]
                  /\ r.state[b] = state'[b]
                  /\ r.k_indices[b] = k_indices'[b]
                  /\ r.symbol[b] = symbol'[b]]_vars

\* a batch of two rows after an iteration at a position that is known and
\* broadcast for one row and a free, unfrozen position of the other
C10_Witness ==
    /\ pc = "loop" /\ i >= 1 /\ beam_size = 2
    /\ \E b \in DOMAIN source : \E o \in DOMAIN source :
          /\ known_token[b][i - 1] /\ multi[b][i - 1]
          /\ ~known_token[o][i - 1] /\ ~multi[o][i - 1]
          /\ i - 1 < seq_len[o]
          /\ \A j \in Slots : Finite(scores[o][j]) /\ Finite(scores[b][j])

\* C11: a call with a beam width of 0 or less ends in the error of line 27
\* with nothing created: no score tensor, output buffer, mask or decoder state,
\* and no call of the Pattern Analyzer, the encoder or the Step Decoder.
C11_FailFast ==
    (beam_size <= 0 /\ pc # "call") =>
        /\ pc = "error"
        /\ scores = None /\ output = None /\ input_var = None
        /\ ban_token_mask = None /\ state = None
        /\ pad_mask = None /\ sent_pattern = None /\ known_token = None /\ multi = None
        /\ calls = << >>

\* a call on a batch of two rows with beam width 0 has ended in the error
C11_Witness ==
    pc = "error" /\ beam_size = 0 /\ Cardinality(DOMAIN source) = 2

\* the masked candidates of b hold fewer than beam_size finite scores
Starved(c, b) ==
    /\ ~EndIndices(c, b)
    /\ Cardinality({n \in 0 .. (c.beam_size * VocabSize - 1) :
                       Finite(MaskedScores(c)[b][n])}) < c.beam_size

\* a floating-point score that is not NaN: -inf or a finite sum of log-probabilities
IsScore(x) == x = NegInf \/ (NegInf < x /\ x <= 0)

\* C12: an iteration in which a batch element has fewer than K candidates of
\* finite score after masking (all of them -inf included) still selects a
\* vocabulary token for every slot of the element and writes it at the
\* position, every new score is -inf or finite, the slots beyond the finite
\* candidates get -inf, and the iteration can be taken (the top-k selection has
\* a result), so that the loop goes on through the remaining positions.
C12_DegenerateProceeds ==
    /\ [][IsStep =>
             \A b \in DOMAIN source : Starved(Cur, b) =>
                 LET m == Cardinality({n \in 0 .. (beam_size * VocabSize - 1) :
                                          Finite(MaskedScores(Cur)[b][n])})
                 IN  \A j \in Slots :
                        /\ symbol'[b][j] \in Vocab
                        /\ output'[b][j][i] = symbol'[b][j]
                        /\ IsScore(scores'[b][j])
                        /\ (j >= m => scores'[b][j] = NegInf)]_vars
    /\ []((pc = "loop" /\ i < FixLen /\ \E b \in DOMAIN source : Starved(Cur, b))
              => TopKResults(Cur) # {})

\* a returned row of full length whose two hypotheses both ended with score
\* -inf: at its last position every candidate was -inf
C12_Witness ==
    /\ Returned /\ beam_size = 2
    /\ \E b \in DOMAIN source :
          seq_len[b] = FixLen /\ \A j \in Slots : scores[b][j] = NegInf

\* C13: a call whose length vector has not one entry per row of the source
\* never enters the step loop: it ends in an error.
C13_ShapeChecked ==
    (DOMAIN seq_len # DOMAIN source) => pc \in {"call", "error"}

\* C14: in a call with valid arguments the Pattern Analyzer and the encoder
\* are invoked once each, before any Step Decoder call; the Step Decoder is
\* then invoked once per position, FixLen times in all, whether or not every
\* batch element is frozen; the loop can always take its next iteration, and
\* the call returns after the last one and not before.
C14_CallOrder ==
    /\ pc = "call" => calls = << >>
    /\ pc \in {"loop", "done"} =>
          calls = <<"sentence_pattern", "encode">> \o [n \in 1 .. i |-> "decode"]
    /\ pc = "loop" => (i = FixLen \/ (i < FixLen /\ TopKResults(Cur) # {}))
    /\ pc = "done" => (i = FixLen /\ Len(calls) = FixLen + 2)

\* a returned call on two rows of one character each: every batch element was
\* frozen from the second position on
C14_Witness ==
    /\ Returned /\ beam_size = 2
    /\ Cardinality(DOMAIN source) = 2
    /\ \A b \in DOMAIN source : seq_len[b] = 1
    /\ Len(calls) = FixLen + 2

\* C15: the write of an iteration, element by element.  For an element whose
\* position i has the multi flag, the selected token is written into every
\* position correlated with i; for an element whose position i has not, into
\* position i only; every other position keeps the token of the parent
\* hypothesis, whichever branch the batch as a whole takes.
C15_WritePerElement ==
    [][IsStep =>
          \A b \in DOMAIN source : \A j \in Slots : \A p \in Pos :
              output'[b][j][p] =
                  IF (multi[b][i] /\ sent_pattern[b][i][p]) \/ (~multi[b][i] /\ p = i)
                  THEN symbol'[b][j]
                  ELSE output[b][k_indices'[b][j]][p]]_vars

\* after an iteration at a position that is multi for one row and not for
\* another row that is not frozen there: the hypotheses of both rows hold
\* vocabulary tokens at the position
C15_Witness ==
    /\ pc = "loop" /\ i >= 1 /\ beam_size = 2
    /\ \E b \in DOMAIN source : \E o \in DOMAIN source :
          /\ multi[b][i - 1] /\ ~multi[o][i - 1]
          /\ i - 1 < seq_len[o]
          /\ \A j \in Slots : output[o][j][i - 1] \notin Special
                               /\ output[b][j][i - 1] \notin Special

\* the tokens the decoder has consumed for a hypothesis after n positions: the
\* begin token, then the tokens the hypothesis holds at positions 0 .. n-2 (the
\* pad token from the true length on)
Lineage(b, j, n) ==
    [m \in 1 .. n |-> IF m = 1 THEN bos_token_id
                      ELSE IF m - 2 >= seq_len[b] THEN pad_token_id
                      ELSE output[b][j][m - 2]]

\* C16: the first decoder call gets the begin token and the initial state for
\* every slot.  An iteration leaves for slot j the token selected for j as next
\* input (the pad token for a frozen slot), and as decoder state, used-token
\* mask and output buffer those of the slot k_indices[j] it was selected from:
\* the state the decoder produced from the parent's state and input, the
\* parent's mask plus the new token, the parent's buffer plus the write.  The
\* inputs consumed by a hypothesis of finite score are the begin token followed
\* by the tokens it holds.
C16_Lineage ==
    /\ []((pc = "loop" /\ i = 0) =>
             \A b \in DOMAIN source : \A j \in Slots :
                 input_var[b][j] = bos_token_id /\ state[b][j] = << >>)
    /\ [][IsStep =>
             \A b \in DOMAIN source : \A j \in Slots :
                 LET par == k_indices'[b][j]
                 IN  /\ input_var'[b][j] = symbol'[b][j]
                     /\ (i >= seq_len[b] => input_var'[b][j] = pad_token_id)
                     /\ state'[b][j] = Append(state[b][par], input_var[b][par])
                     /\ ban_token_mask'[b][j] = ban_token_mask[b][par] \cup {symbol'[b][j]}
                     /\ \A p \in Pos : (p # i /\ ~sent_pattern[b][i][p])
                                          => output'[b][j][p] = output[b][par][p]]_vars
    /\ []((pc \in {"loop", "done"}) =>
             \A b \in DOMAIN source : \A j \in Slots :
                 Finite(scores[b][j]) => state[b][j] = Lineage(b, j, i))

\* beam width 2, three positions decoded: the hypothesis now in the first slot
\* descends from the second slot, both hypotheses of the row have finite scores
C16_Witness ==
    /\ pc = "loop" /\ i = 3 /\ beam_size = 2
    /\ \E b \in DOMAIN source :
          /\ seq_len[b] = 3
          /\ k_indices[b][0] = 1
          /\ \A j \in Slots : Finite(scores[b][j])

\* the tokens slot j of b holds at the positions decoded so far
Emitted(b, j) == {output[b][j][p] : p \in {q \in Pos : q < i}}

\* C17 as claimed: after every iteration the used-token mask of every slot
\* marks exactly the three special tokens and the tokens its own output buffer
\* holds at the positions decoded so far.
C17_MaskExact ==
    pc \in {"loop", "done"} =>
        \A b \in DOMAIN source : \A j \in Slots :
            ban_token_mask[b][j] = Special \cup Emitted(b, j)

\* C17 amended: after every iteration the used-token mask of every slot with a
\* finite score marks exactly the three special tokens and the tokens its own
\* output buffer holds at the positions decoded so far; and the mask of every
\* slot, whatever its score, is the mask of the slot it was selected from plus
\* the token just emitted, so that it only grows along a lineage.
C17_MaskExactFinite ==
    /\ [](pc \in {"loop", "done"} =>
             \A b \in DOMAIN source : \A j \in Slots :
                 Finite(scores[b][j]) => ban_token_mask[b][j] = Special \cup Emitted(b, j))
    /\ [][IsStep =>
             \A b \in DOMAIN source : \A j \in Slots :
                 /\ ban_token_mask[b][k_indices'[b][j]] \subseteq ban_token_mask'[b][j]
                 /\ ban_token_mask'[b][j] \ ban_token_mask[b][k_indices'[b][j]]
                        \subseteq {symbol'[b][j]}]_vars

\* two hypotheses of finite score that hold different vocabulary tokens at a
\* decoded position, two positions decoded
C17_Witness ==
    /\ pc = "loop" /\ i >= 2 /\ beam_size = 2
    /\ \E b \in DOMAIN source :
          /\ i <= seq_len[b]
          /\ \A j \in Slots : Finite(scores[b][j])
          /\ \E p \in Pos : /\ p < i
                            /\ output[b][0][p] # output[b][1][p]
                            /\ output[b][0][p] \notin Special
                            /\ output[b][1][p] \notin Special

\* the sum of the log-probabilities the decoder gives, along the hypothesis's
\* own tokens, to the tokens slot j of b holds at its first n positions
RECURSIVE ScoreSum(_, _, _)
ScoreSum(b, j, n) ==
    IF n = 0 THEN 0
    ELSE Add(ScoreSum(b, j, n - 1),
             LogProb(dec, encode(source, seq_len)[b], Lineage(b, j, n), output[b][j][n - 1]))

\* C18: after every iteration the score of a slot with a finite score is the
\* sum, over the positions decoded so far that lie below the true length, of
\* the log-probability of the token the hypothesis holds there, forced tokens
\* included; the iterations at frozen positions add nothing.
C18_ScoreIsSum ==
    pc \in {"loop", "done"} =>
        \A b \in DOMAIN source : \A j \in Slots :
            Finite(scores[b][j]) =>
                scores[b][j] = ScoreSum(b, j, Min({i, seq_len[b]}))

\* a returned row of true length 2, beam width 2: a free position, the forced
\* end token and a frozen position, both hypotheses with finite and different scores
C18_Witness ==
    /\ Returned /\ beam_size = 2
    /\ \E b \in DOMAIN source :
          /\ seq_len[b] = 2 /\ seq_len[b] < FixLen
          /\ \A j \in Slots : Finite(scores[b][j])
          /\ scores[b][0] # scores[b][1]

\* C19: a call starts every batch element with score 0 in slot 0 and -inf in
\* the other slots, and after every iteration two different slots of an
\* element that both have a finite score differ in the token of some position
\* decoded so far.
C19_NoDuplicates ==
    /\ (pc = "loop" /\ i = 0) =>
          \A b \in DOMAIN source : \A j \in Slots :
              scores[b][j] = IF j = 0 THEN 0 ELSE NegInf
    /\ (pc \in {"loop", "done"} /\ i >= 1) =>
          \A b \in DOMAIN source : \A j1 \in Slots : \A j2 \in Slots :
              (j1 # j2 /\ Finite(scores[b][j1]) /\ Finite(scores[b][j2]))
              => \E p \in Pos : p < i /\ output[b][j1][p] # output[b][j2][p]

\* a returned row of full length with a repeated character, two hypotheses of
\* finite score
C19_Witness ==
    /\ Returned /\ beam_size = 2
    /\ \E b \in DOMAIN source :
          /\ seq_len[b] = FixLen
          /\ \E p \in Pos : multi[b][p]
          /\ \A j \in Slots : Finite(scores[b][j])

\* C20: in every returned hypothesis with a finite score, two different
\* positions below the true length that the pattern matrix does not correlate
\* hold different tokens; and in every iteration a slot that ends with a finite
\* score has taken, at a known position, the token its parent held there, and
\* has taken a token of its parent's used-token mask at a known position only.
C20_RepeatOnlyOnPattern ==
    /\ [](Returned =>
             \A b \in DOMAIN source : \A j \in Slots : \A p \in Pos : \A q \in Pos :
                 (Finite(scores[b][j]) /\ p # q /\ p < seq_len[b] /\ q < seq_len[b]
                    /\ ~sent_pattern[b][p][q])
                 => output[b][j][p] # output[b][j][q])
    /\ [][IsStep =>
             \A b \in DOMAIN source : \A j \in Slots :
                 (i < seq_len[b] /\ Finite(scores'[b][j])) =>
                     LET par == k_indices'[b][j]
                         t == symbol'[b][j]
                     IN  /\ known_token[b][i] => t = output[b][par][i]
                         /\ t \in ban_token_mask[b][par] => known_token[b][i]]_vars

\* a returned row of three positions, the first and the last correlated and the
\* middle one free: two hypotheses of finite score that repeat a vocabulary
\* token at the correlated positions
C20_Witness ==
    /\ Returned /\ beam_size = 2
    /\ \E b \in DOMAIN source :
          /\ seq_len[b] = 3
          /\ sent_pattern[b][0][2] /\ ~sent_pattern[b][0][1]
          /\ \A j \in Slots : /\ Finite(scores[b][j])
                              /\ output[b][j][0] = output[b][j][2]
                              /\ output[b][j][0] \notin Special
                              /\ output[b][j][1] \notin Special

====
